---- MODULE Spec2Model ----
(***************************************************************************)
(* hyperglass: the query endpoint (hyperglass/api/routes.py), its          *)
(* cache-aside protocol against the shared cache store, and the webhook    *)
(* background task.                                                        *)
(*                                                                         *)
(* Atomicity.  The cache is an external store shared by every worker       *)
(* process; the handler talks to it with separate commands (get_map,       *)
(* set_map_item, expire) and takes no lock or transaction.  Each command   *)
(* is one atomic step of the model; time (Tick) may pass and other         *)
(* requests may run between any two commands of a request.                 *)
(***************************************************************************)
EXTENDS Integers, Sequences, FiniteSets, TLC

\* ------------------------------------------------------------------ bounds
\* state.params.cache.timeout, in ticks of the store's clock.
CacheTimeout == 2
\* The longest time the engine takes, in whole seconds.
MaxElapsed == 1

\* The most classes a plugin module holds.
MaxClasses == 2

\* The most items passed to one MultiModel call, and the longest list a
\* MultiModel is grown to.
MaxItems == 2
MaxRoot == 3

\* Two requests, which may be concurrent or one after the other.
Requests == {1, 2}

\* ------------------------------------------------------- Python values
\* Every value carries its Python type, so that str(), json.dumps() and
\* truthiness are computed as Python computes them.
PyNone == [kind |-> "NoneType"]
PyStr(s) == [kind |-> "str", s |-> s]
PyDict(n) == [kind |-> "dict", routes |-> n]
PyTime(src, r) == [kind |-> "datetime", src |-> src, req |-> r]

Digit(n) == IF n = 0 THEN "0" ELSE "1"

\* bool(v): None and the empty string are falsy.
Truthy(v) == /\ v.kind # "NoneType"
             /\ ~(v.kind = "str" /\ v.s = <<>>)

\* str(v): a str is itself; None is "None"; a dict is its Python repr,
\* {'routes': n}.
Str(v) ==
    IF v.kind = "str" THEN v
    ELSE IF v.kind = "NoneType" THEN PyStr(<<"N", "o", "n", "e">>)
    ELSE PyStr(<<"{", "'", "routes", "'", ":", Digit(v.routes), "}">>)

\* json.dumps(v): a str is quoted; None is null; a dict becomes a JSON object.
JsonDumps(v) ==
    IF v.kind = "str" THEN PyStr(<<"\"">> \o v.s \o <<"\"">>)
    ELSE IF v.kind = "NoneType" THEN PyStr(<<"n", "u", "l", "l">>)
    ELSE PyStr(<<"{", "\"", "routes", "\"", ":", Digit(v.routes), "}">>)

\* Whether a str parses as a JSON document (a JSON string or a JSON object
\* of the shape the model produces).
IsJsonDocument(v) ==
    /\ v.kind = "str"
    /\ LET s == v.s IN
       \/ /\ Len(s) >= 2
          /\ s[1] = "\""
          /\ s[Len(s)] = "\""
          /\ \A i \in 2..(Len(s) - 1) : s[i] # "\""
       \/ /\ Len(s) = 7
          /\ s[1] = "{" /\ s[2] = "\"" /\ s[4] = "\"" /\ s[5] = ":"
          /\ s[6] \in {"0", "1"} /\ s[7] = "}"
       \/ s = <<"n", "u", "l", "l">>

\* ------------------------------------------------------------- queries
Devices == {"d_structured", "d_plain"}
structured_output(device) == device = "d_structured"
QueryTypes == {"bgp_route", "ping"}
Targets == {"t1"}
Fields == {"query_location", "query_type", "query_target"}

Queries == [query_location : Devices, query_type : QueryTypes, query_target : Targets]

\* A request body: the three fields in the order the client sent them.
FieldOrders ==
    {o \in [1..3 -> Fields] : \A i, j \in 1..3 : o[i] = o[j] => i = j}
Bodies == {[order |-> o, values |-> q] : o \in FieldOrders, q \in Queries}

\* Validation of the body into a Query keeps the values and drops the order.
ParseQuery(body) == body.values

\* Query.digest(): a digest of the query's content.
digest(query_data) ==
    <<query_data.query_location, query_data.query_type, query_data.query_target>>

\* cache_key = f"hyperglass.query.{query_data.digest()}", line 101.
CacheKeyIgnoresDevice(query_data) ==
    <<"hyperglass", "query",
      digest([query_data EXCEPT !.query_location = "d_structured"])>>

CacheKey(query_data) == <<"hyperglass", "query", digest(query_data)>>

Keys == {CacheKey(q) : q \in Queries}

\* ----------------------------------------------------------- cache store
\* One hash per key with the fields output and timestamp; ttl is the remaining
\* lifetime in ticks, 0 when the key has no expiry set.
NoEntry == [output |-> PyNone, timestamp |-> PyNone, ttl |-> 0]

Exists(c, key) == c[key].output # PyNone \/ c[key].timestamp # PyNone

get_map(c, key, field) == c[key][field]

set_map_item(c, key, field, value) == [c EXCEPT ![key][field] = value]

\* Setting a TTL on a key that does not exist does nothing.
expire(c, key, seconds) ==
    IF Exists(c, key) THEN [c EXCEPT ![key].ttl = seconds] ELSE c

\* One unit of time passes in the store: TTLs count down, and a key whose TTL
\* elapses is destroyed with all its fields.
Elapse(c) ==
    [k \in Keys |->
        IF c[k].ttl = 1 THEN NoEntry
        ELSE IF c[k].ttl > 1 THEN [c[k] EXCEPT !.ttl = c[k].ttl - 1]
        ELSE c[k]]

\* ------------------------------------------------- execution and output
\* What execute(query_data) can return: text (possibly empty) or structured
\* data.  It can also return None or raise (see ExecuteReturn).
EngineOutputs == {PyStr(<<>>), PyDict(1)}

\* fake_output(json_output): fixed data, structured when asked for.
fake_output(json_output) == IF json_output THEN PyDict(0) ELSE PyStr(<<"f">>)

StructuredTypes == {"bgp_route", "bgp_community", "bgp_aspath"}

\* json_output, lines 107-114.
JsonOutputTypeOnly(query_data) == query_data.query_type \in StructuredTypes

JsonOutput(query_data) ==
    /\ structured_output(query_data.query_location)
    /\ query_data.query_type \in StructuredTypes

\* raw_output, lines 151-154.
Serialize(json_output, cache_output) ==
    IF json_output THEN JsonDumps(cache_output) ELSE Str(cache_output)

\* response_format, lines 165-168.
ResponseFormat(json_output) ==
    IF json_output THEN "application/json" ELSE "text/plain"

\* `if cache_response:`, line 118.
IsHitNever(cache_response) == FALSE

IsHit(cache_response) == Truthy(cache_response)

\* `elif not cache_response:`, line 128.
IsMiss(cache_response) == ~Truthy(cache_response)

\* `if cache_output is None:`, line 147.
IsNoResultNever(cache_output) == FALSE

IsNoResultAlways(cache_output) == TRUE

IsNoResult(cache_output) == cache_output = PyNone

HyperglassError == [kind |-> "HyperglassError", message |-> "messages.general",
                    alert |-> "danger"]
BackendException == [kind |-> "BackendException"]
NoResult == [kind |-> "pending"]

Envelope(output, id, cached, runtime, timestamp, format) ==
    [kind |-> "envelope", output |-> output, id |-> id, cached |-> cached,
     runtime |-> runtime, timestamp |-> timestamp, format |-> format,
     level |-> "success", keywords |-> <<>>]

RuntimeSentinel == 65535

\* ------------------------------------------------------------------ state
VARIABLES
    params,   \* state.params: fake_output
    cache,    \* state.redis: the shared cache store
    req,      \* per request: position in query() and its local variables
    result,   \* per request: what query() returned or raised
    task,     \* per request: the send_webhook background task
    hist,     \* history of the run, read by the properties only
    plugins,  \* hyperglass.plugins: the modules loaded and the two managers
    models    \* hyperglass.models: a MultiModel instance and the last sum

vars == <<params, cache, req, result, task, hist, plugins, models>>

NoQuery == [query_location |-> "", query_type |-> "", query_target |-> ""]
NoLocals ==
    [query_data |-> NoQuery, cache_key |-> <<>>, timestamp |-> PyNone,
     cache_response |-> PyNone, json_output |-> FALSE, cached |-> FALSE,
     runtime |-> RuntimeSentinel, raw_output |-> PyNone]

Locals(pc, l) == [pc |-> pc] @@ l

\* The background task of a request: how many times it was added, where it
\* is, and what it did (the headers it read, the address it looked up, and
\* the payload it posted).
NoHeaders == [x_real_ip |-> PyNone, x_forwarded_for |-> PyNone]
NoPayload == [source |-> PyNone, network |-> PyNone, timestamp |-> PyNone]
NoTask == [pc |-> "none", added |-> 0, timestamp |-> PyNone,
           headers |-> NoHeaders, looked_up |-> PyNone, sent |-> NoPayload]

\* background_tasks.add_task(send_webhook, query_data, request, timestamp),
\* line 93.
add_task_dropped(t, r, timestamp) == t

add_task(t, r, timestamp) ==
    [t EXCEPT ![r].pc = "scheduled", ![r].added = @ + 1,
              ![r].timestamp = timestamp]

\* Per request: engine (or fake_output) invocations, cache mutations, what
\* the request saw when it arrived and what its first read returned.  Per key: who wrote each field last, and
\* the time since the entry was last written or hit.
NoHist ==
    [invoked |-> 0, writes |-> 0, branch |-> "none", first_read |-> "none",
     absent_at_start |-> FALSE,
     overlap |-> {}, prior_miss |-> {}, ops_before_task |-> 0,
     output_from |-> 0, stale_local |-> FALSE, wrote_timestamp |-> PyNone,
     engine_result |-> "none"]

\* ---------------------------------------------------------------- plugins
\* A class found in a module: what it derives from, and whether it is defined
\* in that module (obj.__module__ == module.__name__) or imported into it.
Bases == {"OutputPlugin", "InputPlugin", "object"}
Classes == [base : Bases, defined : BOOLEAN]

\* A module: its classes in the order of their names, which is the order
\* getmembers returns them in.  A class is named by its module and position.
Modules == UNION {[1..n -> Classes] : n \in 0..MaxClasses}
NoFile == <<[base |-> "none", defined |-> FALSE]>>

\* _is_class, lines 22-23.
_is_class(module, i) == module[i].defined

\* getmembers(module, lambda o: _is_class(module, o)), line 29.
RECURSIVE getmembers(_, _, _)
getmembers(mod, module, i) ==
    IF i > Len(module) THEN <<>>
    ELSE (IF _is_class(module, i) THEN <<(<<mod, i>>)>> ELSE <<>>)
         \o getmembers(mod, module, i + 1)

\* manager.register(plugin): the manager holds the classes registered with it.
NoManagers == [OutputPluginManager |-> {}, InputPluginManager |-> {}]
register(managers, manager, plugin) ==
    [managers EXCEPT ![manager] = @ \cup {plugin}]

\* _register_from_module, lines 26-40: the loop over defs.  The `return` of
\* line 39 is inside the loop body.
RECURSIVE _register_from_module(_, _, _, _)
_register_from_module(module, defs, failures, managers) ==
    IF defs = <<>>
    THEN [failures |-> failures, managers |-> managers]
    ELSE LET name == Head(defs)
             plugin == module[name[2]] IN
         IF plugin.base = "OutputPlugin"
         THEN [failures |-> failures,
               managers |-> register(managers, "OutputPluginManager", name)]
         ELSE IF plugin.base = "InputPlugin"
         THEN [failures |-> failures,
               managers |-> register(managers, "InputPluginManager", name)]
         ELSE _register_from_module(module, Tail(defs),
                                    Append(failures, name), managers)

NoPlugins == [pc |-> "start", builtin |-> <<>>, external |-> <<>>,
              managers |-> NoManagers, results |-> <<>>]

\* ------------------------------------------------------------- MultiModel
\* What is passed to a MultiModel: an instance of its model or a dict, which
\* has a value for the unique_by attribute or lacks it; rev tells apart two
\* items that have the same value.
Ids == {"a", "b"}
Revs == {"old", "new"}
Items ==
    [form : {"model", "dict"}, keyed : {TRUE}, id : Ids, rev : Revs]
    \cup [form : {"model", "dict"}, keyed : {FALSE}, id : {""}, rev : {"old"}]
Args == UNION {[1..n -> Items] : n \in 0..MaxItems}

\* _valid_items, lines 289-305: keep the items that have the unique_by
\* attribute or key, and build a model from each dict.
RECURSIVE _valid_items(_)
_valid_items(to_validate) ==
    IF to_validate = <<>> THEN <<>>
    ELSE LET item == Head(to_validate) IN
         (IF item.keyed THEN <<[item EXCEPT !.form = "model"]>> ELSE <<>>)
         \o _valid_items(Tail(to_validate))

\* The orders a set can be iterated in.
Orderings(S) ==
    {o \in [1..Cardinality(S) -> S] :
        \A i, j \in 1..Cardinality(S) : o[i] = o[j] => i = j}

\* {v: o for v in unique_by_values for o in all if o.id == v}, lines 313-318:
\* the last item with the value stays.
LastWith(all, v) ==
    all[CHOOSE i \in 1..Len(all) :
            /\ all[i].id = v
            /\ \A j \in (i + 1)..Len(all) : all[j].id # v]

\* _merge_with, lines 307-320: the tuples it may return.  With unique_by the
\* result follows the iteration order of the set of values, which is not
\* fixed; without it the items are appended.
_merge_with(root, items, unique_by) ==
    LET to_add == _valid_items(items)
        all == root \o to_add IN
    IF unique_by # "None"
    THEN LET unique_by_values == {all[i].id : i \in 1..Len(all)} IN
         {[i \in 1..Len(o) |-> LastWith(all, o[i])] :
             o \in Orderings(unique_by_values)}
    ELSE {all}

NoInstance == [root |-> <<>>, count |-> 0]
NoModels == [pc |-> "class", self |-> NoInstance, sum |-> NoInstance]

\* MultiModel.__init__, lines 197-204, for a class that has model and
\* unique_by.
Instance(items) ==
    LET valid == _valid_items(items) IN [root |-> valid, count |-> Len(valid)]

Finished == {"done", "failed", "raised"}
InFlight(r) == req[r].pc \notin ({"idle"} \cup Finished)

Init ==
    /\ params \in [fake_output : BOOLEAN]
    /\ cache = [k \in Keys |-> NoEntry]
    /\ req = [r \in Requests |-> Locals("idle", NoLocals)]
    /\ result = [r \in Requests |-> NoResult]
    /\ task = [r \in Requests |-> NoTask]
    /\ hist = [req |-> [r \in Requests |-> NoHist],
               fresh |-> {},
               writer |-> [k \in Keys |-> [output |-> 0, timestamp |-> 0]],
               age |-> [k \in Keys |-> [touched |-> FALSE, n |-> 0]]]
    /\ plugins = NoPlugins
    /\ models = NoModels

Touch(h, key) == [h EXCEPT !.age[key] = [touched |-> TRUE, n |-> 0]]

\* ----------------------------------------------------------------- query()
\* Lines 92-103: take the arrival time, schedule the webhook task, compute
\* the cache key.
Arrive(r) ==
    /\ req[r].pc = "idle"
    /\ \E body \in Bodies :
        LET query_data == ParseQuery(body)
            cache_key == CacheKey(query_data) IN
        /\ req' = [req EXCEPT ![r] =
                Locals("read", [NoLocals EXCEPT
                    !.query_data = query_data,
                    !.cache_key = cache_key,
                    !.timestamp = PyTime("utcnow", r)])]
        /\ task' = add_task(task, r, PyTime("utcnow", r))
        /\ hist' = [hist EXCEPT
                !.req[r].absent_at_start = ~Exists(cache, cache_key),
                !.req[r].overlap = {o \in Requests : InFlight(o)},
                !.req[r].prior_miss =
                    {m \in hist.fresh : req[m].cache_key = cache_key}]
    /\ UNCHANGED <<models, plugins, params, cache, result>>

\* What a read of the output field returned.
ReadAs(cache_response) ==
    IF cache_response = PyNone THEN "absent"
    ELSE IF cache_response = PyStr(<<>>) THEN "empty"
    ELSE "value"

\* Lines 105-132: read the output field and branch on its truthiness.  When
\* neither the `if` of line 118 nor the `elif` of line 128 is taken, control
\* falls through to line 164 with the defaults of lines 116-117.
ReadCache(r) ==
    /\ req[r].pc = "read"
    /\ LET l == req[r]
           cache_response == get_map(cache, l.cache_key, "output")
           json_output == JsonOutput(l.query_data) IN
       /\ req' = [req EXCEPT ![r] =
            IF IsHit(cache_response)
            THEN [l EXCEPT !.pc = "hit_expire",
                           !.cache_response = cache_response,
                           !.json_output = json_output]
            ELSE IF IsMiss(cache_response)
            THEN [l EXCEPT !.pc = "execute",
                           !.cache_response = cache_response,
                           !.json_output = json_output,
                           !.timestamp = PyTime("query", r)]
            ELSE [l EXCEPT !.pc = "respond",
                           !.cache_response = cache_response,
                           !.json_output = json_output]]
       /\ hist' = [hist EXCEPT
            !.req[r].branch = IF IsHit(cache_response) THEN "hit"
                              ELSE IF IsMiss(cache_response) THEN "miss"
                              ELSE "neither",
            !.req[r].first_read = ReadAs(cache_response),
            !.req[r].prior_miss = @ \cap hist.fresh,
            !.req[r].ops_before_task =
                IF task[r].added = 0 THEN @ + 1 ELSE @]
    /\ UNCHANGED <<models, plugins, params, cache, result, task>>

\* Lines 122-125: reset the expiration time of the entry.
HitExpireRestamping(r) ==
    /\ req[r].pc = "hit_expire"
    /\ cache' = set_map_item(expire(cache, req[r].cache_key, CacheTimeout),
                             req[r].cache_key, "timestamp", req[r].timestamp)
    /\ req' = [req EXCEPT ![r].pc = "hit_timestamp",
                          ![r].cached = TRUE,
                          ![r].runtime = 0]
    /\ hist' = [Touch(hist, req[r].cache_key) EXCEPT !.req[r].writes = @ + 1]
    /\ UNCHANGED <<models, plugins, params, result, task>>

HitExpire(r) ==
    /\ req[r].pc = "hit_expire"
    /\ cache' = expire(cache, req[r].cache_key, CacheTimeout)
    /\ req' = [req EXCEPT ![r].pc = "hit_timestamp",
                          ![r].cached = TRUE,
                          ![r].runtime = 0]
    /\ hist' = [Touch(hist, req[r].cache_key) EXCEPT !.req[r].writes = @ + 1]
    /\ UNCHANGED <<models, plugins, params, result, task>>

\* Line 126: read the stored timestamp.
HitTimestamp(r) ==
    /\ req[r].pc = "hit_timestamp"
    /\ req' = [req EXCEPT ![r].pc = "respond",
                          ![r].timestamp =
                              get_map(cache, req[r].cache_key, "timestamp")]
    /\ UNCHANGED <<models, plugins, params, cache, result, task, hist>>

\* Lines 134-141: call fake_output or the execution engine and await it.
ExecuteCallAfterTask(r) ==
    /\ req[r].pc = "execute"
    /\ task[r].pc # "scheduled"
    /\ req' = [req EXCEPT ![r].pc = "awaiting"]
    /\ hist' = [hist EXCEPT !.req[r].invoked = @ + 1]
    /\ UNCHANGED <<models, plugins, params, cache, result, task>>

ExecuteCall(r) ==
    /\ req[r].pc = "execute"
    /\ req' = [req EXCEPT ![r].pc = "awaiting"]
    /\ hist' = [hist EXCEPT !.req[r].invoked = @ + 1]
    /\ UNCHANGED <<models, plugins, params, cache, result, task>>

\* Lines 143-154: the awaited call returns output or None, or raises.  None
\* ends the request with HyperglassError; otherwise the output is serialized.
Returned(r, cache_output) ==
    IF IsNoResult(cache_output)
    THEN /\ req' = [req EXCEPT ![r] =
                Locals("failed", [NoLocals EXCEPT
                    !.query_data = req[r].query_data,
                    !.cache_key = req[r].cache_key])]
         /\ result' = [result EXCEPT ![r] = HyperglassError]
    ELSE /\ req' = [req EXCEPT
                ![r].pc = "set_output",
                ![r].raw_output = Serialize(req[r].json_output, cache_output)]
         /\ UNCHANGED result

\* Lines 136-141 are inside no try block: an exception of the awaited call
\* leaves query() at once.
RaisedSwallowed(r) == Returned(r, PyStr(<<>>))

Raised(r) ==
    /\ req' = [req EXCEPT ![r] =
            Locals("raised", [NoLocals EXCEPT
                !.query_data = req[r].query_data,
                !.cache_key = req[r].cache_key])]
    /\ result' = [result EXCEPT ![r] = BackendException]

Outcome(r, outcome) ==
    hist' = [hist EXCEPT !.req[r].engine_result = outcome]

ExecuteReturn(r) ==
    /\ req[r].pc = "awaiting"
    /\ IF params.fake_output
       THEN /\ Returned(r, fake_output(req[r].json_output))
            /\ Outcome(r, "output")
       ELSE \/ \E out \in EngineOutputs \cup {PyNone} :
                /\ Returned(r, out)
                /\ Outcome(r, IF out = PyNone THEN "null" ELSE "output")
            \/ /\ Raised(r)
               /\ Outcome(r, "raised")
    /\ UNCHANGED <<models, plugins, params, cache, task>>

\* Line 155.
SetOutput(r) ==
    /\ req[r].pc = "set_output"
    /\ cache' = set_map_item(cache, req[r].cache_key, "output", req[r].raw_output)
    /\ req' = [req EXCEPT ![r].pc = "set_timestamp"]
    /\ hist' = [Touch(hist, req[r].cache_key) EXCEPT
            !.req[r].writes = @ + 1,
            !.writer[req[r].cache_key].output = r]
    /\ UNCHANGED <<models, plugins, params, result, task>>

\* Line 156.
SetTimestamp(r) ==
    /\ req[r].pc = "set_timestamp"
    /\ cache' = set_map_item(cache, req[r].cache_key, "timestamp", req[r].timestamp)
    /\ req' = [req EXCEPT ![r].pc = "set_expire"]
    /\ hist' = [Touch(hist, req[r].cache_key) EXCEPT
            !.req[r].writes = @ + 1,
            !.req[r].wrote_timestamp = req[r].timestamp,
            !.writer[req[r].cache_key].timestamp = r]
    /\ UNCHANGED <<models, plugins, params, result, task>>

\* Lines 157-161; elapsedtime (lines 143-144) is the time the engine took,
\* rounded to whole seconds.
SetExpire(r) ==
    /\ req[r].pc = "set_expire"
    /\ cache' = expire(cache, req[r].cache_key, CacheTimeout)
    /\ \E elapsedtime \in 0..MaxElapsed :
        req' = [req EXCEPT ![r].pc = "respond",
                           ![r].runtime = elapsedtime]
    /\ hist' = [Touch(hist, req[r].cache_key) EXCEPT
            !.req[r].writes = @ + 1,
            !.fresh = IF Exists(cache, req[r].cache_key) THEN @ \cup {r} ELSE @]
    /\ UNCHANGED <<models, plugins, params, result, task>>

\* `cache_response = cache.get_dict(cache_key, "output")`, line 164: the
\* response is built from a second read of the entry, not from the value the
\* request holds (its first read on a hit, raw_output on a miss).
RereadLocal(c, l) == IF l.cached THEN l.cache_response ELSE l.raw_output

Reread(c, l) == get_map(c, l.cache_key, "output")

\* Lines 164-183: read the output field again and return the envelope.
Respond(r) ==
    /\ req[r].pc = "respond"
    /\ LET l == req[r]
           cache_response == Reread(cache, l) IN
       /\ result' = [result EXCEPT ![r] =
            Envelope(cache_response, l.cache_key, l.cached, l.runtime,
                     l.timestamp, ResponseFormat(l.json_output))]
       /\ req' = [req EXCEPT ![r] =
            Locals("done", [NoLocals EXCEPT
                !.query_data = l.query_data,
                !.cache_key = l.cache_key])]
       /\ hist' = [hist EXCEPT
            !.req[r].output_from =
                IF cache_response = PyNone THEN 0
                ELSE hist.writer[l.cache_key].output,
            !.req[r].stale_local = (cache_response # RereadLocal(cache, l))]
    /\ UNCHANGED <<models, plugins, params, cache, task>>

\* ------------------------------------------------------------------- time
AgeCap == CacheTimeout + 1

Tick ==
    /\ \E k \in Keys :
        \/ cache[k].ttl > 0
        \/ hist.age[k].touched /\ hist.age[k].n < AgeCap
    /\ cache' = Elapse(cache)
    /\ hist' = [hist EXCEPT
            !.fresh = {m \in @ : cache[req[m].cache_key].ttl # 1},
            !.writer = [k \in Keys |->
                IF cache[k].ttl = 1 THEN [output |-> 0, timestamp |-> 0] ELSE @[k]],
            !.age = [k \in Keys |->
                IF @[k].touched /\ @[k].n < AgeCap
                THEN [@[k] EXCEPT !.n = @ + 1] ELSE @[k]]]
    /\ UNCHANGED <<models, plugins, params, req, result, task>>

\* ----------------------------------------------------------- send_webhook
\* The request's headers as process_headers returns them (None for a header
\* the client did not send) and the address of the connection.
HeaderValues == {PyNone, PyStr(<<>>), PyStr(<<"real">>)}
ForwardedValues == {PyNone, PyStr(<<"fwd">>)}
RequestHeaders == [x_real_ip : HeaderValues, x_forwarded_for : ForwardedValues]
client_host == PyStr(<<"client">>)

\* host, lines 60-65.
HostForwardedFirst(headers) ==
    IF headers.x_forwarded_for # PyNone THEN headers.x_forwarded_for
    ELSE IF headers.x_real_ip # PyNone THEN headers.x_real_ip
    ELSE client_host

Host(headers) ==
    IF headers.x_real_ip # PyNone THEN headers.x_real_ip
    ELSE IF headers.x_forwarded_for # PyNone THEN headers.x_forwarded_for
    ELSE client_host

\* What an exception raised inside send_webhook's try block becomes: the
\* handler of lines 80-81 logs it and the task ends.
Uncaught(t, r) == [t EXCEPT ![r].pc = "raised"]

Caught(t, r) == [t EXCEPT ![r].pc = "logged"]

\* Lines 55-81, run once the request has ended.  The task reads
\* params.logging.http when it runs (line 55): a webhook is configured or it
\* is None.  The task shares no state with the requests, so its awaits
\* (process_headers, network_info, hook.send) are taken in one step; each of
\* them may raise.
send_webhook(r) ==
    /\ task[r].pc = "scheduled"
    /\ req[r].pc \in Finished
    /\ \E logging_http \in {"None", "configured"} :
       IF logging_http = "None"
       THEN task' = [task EXCEPT ![r].pc = "skipped"]
       ELSE \/ \E headers \in RequestHeaders :
                LET host == Host(headers) IN
                task' = [task EXCEPT
                    ![r].pc = "sent",
                    ![r].headers = headers,
                    ![r].looked_up = host,
                    ![r].sent = [source |-> host, network |-> host,
                                 timestamp |-> task[r].timestamp]]
            \/ \E failing \in {"process_headers", "network_info", "send"} :
                task' = Caught(task, r)
    /\ UNCHANGED <<models, plugins, params, cache, req, result, hist>>

\* ------------------------------------------------- plugins: operations
\* init_plugins, lines 55-57.
init_plugins ==
    /\ plugins.pc = "start"
    /\ LET defs == getmembers("builtin", plugins.builtin, 1)
           done == _register_from_module(plugins.builtin, defs, <<>>,
                                         plugins.managers) IN
       plugins' = [plugins EXCEPT !.pc = "initialized",
                                  !.managers = done.managers]
    /\ UNCHANGED <<models, params, cache, req, result, task, hist>>

\* register_plugin, lines 60-66.
register_plugin ==
    /\ plugins.pc = "initialized"
    /\ IF plugins.external # NoFile
       THEN LET module == plugins.external
                defs == getmembers("external", module, 1)
                done == _register_from_module(module, defs, <<>>,
                                              plugins.managers) IN
            plugins' = [plugins EXCEPT !.pc = "registered",
                                       !.managers = done.managers,
                                       !.results = done.failures]
       ELSE plugins' = [plugins EXCEPT !.pc = "FileNotFoundError"]
    /\ UNCHANGED <<models, params, cache, req, result, task, hist>>

\* The plugin loader on every built-in module and every plugin file, present
\* or missing.
InitPlugins ==
    /\ params = [fake_output |-> FALSE]
    /\ cache = [k \in Keys |-> NoEntry]
    /\ req = [r \in Requests |-> Locals("idle", NoLocals)]
    /\ result = [r \in Requests |-> NoResult]
    /\ task = [r \in Requests |-> NoTask]
    /\ hist = [req |-> [r \in Requests |-> NoHist],
               fresh |-> {},
               writer |-> [k \in Keys |-> [output |-> 0, timestamp |-> 0]],
               age |-> [k \in Keys |-> [touched |-> FALSE, n |-> 0]]]
    /\ \E builtin \in Modules, external \in Modules \cup {NoFile} :
        plugins = [NoPlugins EXCEPT !.builtin = builtin, !.external = external]
    /\ models = NoModels

NextPlugins ==
    \/ init_plugins
    \/ register_plugin

SpecPlugins == InitPlugins /\ [][NextPlugins]_vars

\* ---------------------------------------------- MultiModel: operations
\* self = MultiModel(*items), lines 197-204.
__init__(items) ==
    /\ models.pc = "class"
    /\ models' = [models EXCEPT !.pc = "instance", !.self = Instance(items)]
    /\ UNCHANGED <<params, cache, req, result, task, hist, plugins>>

\* self.add(*items, unique_by=unique_by), lines 345-349.
add(items, unique_by) ==
    /\ models.pc = "instance"
    /\ Len(models.self.root) + Len(items) <= MaxRoot
    /\ \E new \in _merge_with(models.self.root, items, unique_by) :
        models' = [models EXCEPT !.self = [root |-> new, count |-> Len(new)]]
    /\ UNCHANGED <<params, cache, req, result, task, hist, plugins>>

\* self + other, lines 242-264, for another instance of the same class.
__add__(other) ==
    /\ models.pc = "instance"
    /\ \E merged \in _merge_with(models.self.root, other.root, "id") :
        models' = [models EXCEPT !.sum = Instance(merged)]
    /\ UNCHANGED <<params, cache, req, result, task, hist, plugins>>

\* A MultiModel class whose unique_by attribute is id, built and then grown
\* and merged.
InitModels ==
    /\ params = [fake_output |-> FALSE]
    /\ cache = [k \in Keys |-> NoEntry]
    /\ req = [r \in Requests |-> Locals("idle", NoLocals)]
    /\ result = [r \in Requests |-> NoResult]
    /\ task = [r \in Requests |-> NoTask]
    /\ hist = [req |-> [r \in Requests |-> NoHist],
               fresh |-> {},
               writer |-> [k \in Keys |-> [output |-> 0, timestamp |-> 0]],
               age |-> [k \in Keys |-> [touched |-> FALSE, n |-> 0]]]
    /\ plugins = NoPlugins
    /\ models = NoModels

NextModels ==
    \/ \E items \in Args : __init__(items)
    \/ \E items \in Args, unique_by \in {"None", "id"} : add(items, unique_by)
    \/ \E items \in Args : __add__(Instance(items))

SpecModels == InitModels /\ [][NextModels]_vars

RequestStep(r) ==
    \/ Arrive(r)
    \/ ReadCache(r)
    \/ HitExpire(r)
    \/ HitTimestamp(r)
    \/ ExecuteCall(r)
    \/ ExecuteReturn(r)
    \/ SetOutput(r)
    \/ SetTimestamp(r)
    \/ SetExpire(r)
    \/ Respond(r)

\* The query endpoint against the cache store, with time passing in the
\* store.
Next ==
    \/ \E r \in Requests : RequestStep(r)
    \/ Tick

Spec == Init /\ [][Next]_vars

\* The query endpoint with its background tasks.  send_webhook reads and
\* writes nothing of the store, so the store's clock is left out here.
NextWebhook ==
    \/ \E r \in Requests : RequestStep(r)
    \/ \E r \in Requests : send_webhook(r)

SpecWebhook == Init /\ [][NextWebhook]_vars

\* The steps of query() after the arrival of the request.
Progress(r) ==
    \/ ReadCache(r)
    \/ HitExpire(r)
    \/ HitTimestamp(r)
    \/ ExecuteCall(r)
    \/ ExecuteReturn(r)
    \/ SetOutput(r)
    \/ SetTimestamp(r)
    \/ SetExpire(r)
    \/ Respond(r)

\* The endpoint with its background tasks, where a request that can take a
\* step takes it: the event loop resumes the handler, every cache command
\* returns, and the awaited engine call returns or raises.  Nothing is
\* assumed of the arrival of requests or of the background tasks.
SpecTermination ==
    /\ Init
    /\ [][NextWebhook]_vars
    /\ \A r \in Requests : WF_vars(Progress(r))

\* ============================================================== properties
IsEnvelope(r) == result[r].kind = "envelope"
SameKey(r1, r2) == req[r1].cache_key = req[r2].cache_key

\* C1: cache correctness.  Once a request m for fingerprint F has taken the
\* miss path and completed (output, timestamp and TTL written), every later
\* request for F that starts, and first reads the cache, before the entry's TTL
\* elapses returns an envelope with cached = true and runtime = 0 whose output
\* is the output m returned.
C1_CacheCorrectness ==
    \A r \in Requests : \A m \in hist.req[r].prior_miss :
        (IsEnvelope(r) /\ IsEnvelope(m)) =>
            /\ result[r].cached = TRUE
            /\ result[r].runtime = 0
            /\ result[r].output = result[m].output

\* C2: single execution under concurrency.  Requests with the same
\* fingerprint that are in flight together and started while no entry existed
\* invoke the engine once in total and return the same output.
ConcurrentMisses(r) ==
    {o \in Requests :
        /\ SameKey(o, r)
        /\ hist.req[o].absent_at_start
        /\ o = r \/ o \in hist.req[r].overlap \/ r \in hist.req[o].overlap}

C2_SingleExecution ==
    \A r \in Requests :
        (req[r].pc # "idle" /\ hist.req[r].absent_at_start) =>
            LET group == ConcurrentMisses(r) IN
            /\ Cardinality({o \in group : hist.req[o].invoked > 0}) <= 1
            /\ \A o \in group : hist.req[o].invoked <= 1
            /\ \A o1, o2 \in group :
                (IsEnvelope(o1) /\ IsEnvelope(o2)) =>
                    result[o1].output = result[o2].output

\* C3: miss-path null handling.  A request whose engine call returned None
\* ends with HyperglassError (the general message, alert "danger"), returns
\* no envelope, and has made no write to the cache: no field set, no TTL set.
C3_NullNoWrite ==
    \A r \in Requests :
        /\ hist.req[r].engine_result = "null" =>
            /\ req[r].pc = "failed"
            /\ result[r] = HyperglassError
            /\ result[r].alert = "danger"
            /\ result[r].message = "messages.general"
            /\ hist.req[r].writes = 0
            /\ \A k \in Keys : /\ hist.writer[k].output # r
                               /\ hist.writer[k].timestamp # r
        /\ result[r].kind = "HyperglassError" => hist.req[r].engine_result = "null"

C3_Witness ==
    \E r, o \in Requests :
        /\ r # o
        /\ SameKey(r, o)
        /\ hist.req[r].engine_result = "null"
        /\ req[r].pc = "failed"
        /\ IsEnvelope(o)
        /\ Exists(cache, req[r].cache_key)

\* C4: sliding TTL.  An entry that was written or hit less than the cache
\* timeout ago is present, and an entry that was neither written nor hit for
\* longer than the cache timeout is absent.
C4_SlidingTTL ==
    \A k \in Keys :
        hist.age[k].touched =>
            /\ hist.age[k].n < CacheTimeout => Exists(cache, k)
            /\ hist.age[k].n > CacheTimeout => ~Exists(cache, k)

\* C5: notification failure isolation.  Whether send_webhook succeeds or
\* raises at process_headers, network_info or the post, it changes nothing of
\* the request (its locals, its envelope's output, cached and runtime), nothing
\* of the cache, and no exception leaves the task.
C5_NotificationIsolated ==
    /\ [](\A r \in Requests : task[r].pc # "raised")
    /\ [][(\E r \in Requests : task'[r] # task[r] /\ task[r].pc = "scheduled")
            => UNCHANGED <<cache, req, result>>]_vars

C5_Witness ==
    \E r \in Requests :
        /\ task[r].pc = "logged"
        /\ IsEnvelope(r)
        /\ Exists(cache, req[r].cache_key)

\* C6: format selection.  Every returned envelope, hit or miss, has format
\* "application/json" exactly when the query type is bgp_route, bgp_community
\* or bgp_aspath and the device has structured output enabled, and the stored
\* output is then a JSON document; otherwise the format is "text/plain" and the
\* stored output is the plain text of the engine's output.
Eligible(query_data) ==
    /\ query_data.query_type \in {"bgp_route", "bgp_community", "bgp_aspath"}
    /\ query_data.query_location = "d_structured"

PlainTexts ==
    {PyStr(<<>>), PyStr(<<"f">>), PyStr(<<"{", "'", "routes", "'", ":", "1", "}">>)}

StoredAs(query_data, output) ==
    output # PyNone =>
        IF Eligible(query_data)
        THEN IsJsonDocument(output)
        ELSE output \in PlainTexts /\ ~IsJsonDocument(output)

C6_FormatSelection ==
    /\ \A r \in Requests :
        IsEnvelope(r) =>
            /\ result[r].format =
                (IF Eligible(req[r].query_data) THEN "application/json"
                 ELSE "text/plain")
            /\ StoredAs(req[r].query_data, result[r].output)
    /\ \A q \in Queries :
        StoredAs(q, cache[<<"hyperglass", "query",
                           <<q.query_location, q.query_type, q.query_target>>>>].output)

C6_Witness ==
    \E h, m \in Requests :
        /\ IsEnvelope(h) /\ IsEnvelope(m)
        /\ result[h].cached /\ ~result[m].cached
        /\ result[h].format = "application/json"
        /\ result[m].format = "application/json"
        /\ result[h].output = PyStr(<<"{", "\"", "routes", "\"", ":", "1", "}">>)
        /\ IsJsonDocument(result[h].output)

\* C7: stable cache identity.  Bodies that carry the same device, query type
\* and target in any field order give the same key; each request's key is
\* "hyperglass.query.<digest>", every cache write it makes is under that key,
\* its envelope's id is that key, and requests with different queries have
\* different keys.
OrderInsensitive ==
    \A b1, b2 \in Bodies :
        b1.values = b2.values => CacheKey(ParseQuery(b1)) = CacheKey(ParseQuery(b2))

C8_LogicalTimestamp ==
    \A r \in Requests :
        IsEnvelope(r) =>
            IF result[r].cached
            THEN /\ hist.req[r].output_from # 0
                 /\ result[r].timestamp = PyTime("query", hist.req[r].output_from)
            ELSE /\ result[r].timestamp = PyTime("query", r)
                 /\ hist.req[r].wrote_timestamp = PyTime("query", r)

\* C9: notification on every request.  Every request that has arrived has
\* added exactly one send_webhook task, did so before its first cache
\* operation, whether it then hits, misses or fails; and a request in flight
\* can always take its next step, whatever the state of the task.
C9_NotificationScheduled ==
    \A r \in Requests :
        /\ req[r].pc # "idle" =>
            /\ task[r].added = 1
            /\ hist.req[r].ops_before_task = 0
        /\ req[r].pc = "idle" => task[r].added = 0
        /\ InFlight(r) => ENABLED RequestStep(r)

C9_Witness ==
    \E r, o \in Requests :
        /\ req[r].pc = "failed" /\ task[r].added = 1 /\ task[r].pc = "scheduled"
        /\ IsEnvelope(o) /\ task[o].added = 1 /\ task[o].pc = "scheduled"

\* C10: source-address precedence.  The payload's source is the x-real-ip
\* header when present, else the x-forwarded-for header when present, else the
\* connection's address; and that address is the one looked up.
C10_SourcePrecedence ==
    \A r \in Requests :
        task[r].pc = "sent" =>
            LET h == task[r].headers
                source == task[r].sent.source IN
            /\ h.x_real_ip # PyNone => source = h.x_real_ip
            /\ (h.x_real_ip = PyNone /\ h.x_forwarded_for # PyNone)
                    => source = h.x_forwarded_for
            /\ (h.x_real_ip = PyNone /\ h.x_forwarded_for = PyNone)
                    => source = client_host
            /\ task[r].looked_up = source
            /\ task[r].sent.network = source

C10_Witness ==
    \E r \in Requests :
        /\ task[r].pc = "sent"
        /\ task[r].headers.x_real_ip = PyStr(<<"real">>)
        /\ task[r].headers.x_forwarded_for = PyStr(<<"fwd">>)
        /\ task[r].sent.source = PyStr(<<"real">>)

\* C11: duplicate-work hazard.  Every request whose first read found the
\* output field absent invokes the engine (or fake_output) exactly once, and
\* when that call returned a non-null result it makes the three writes of the
\* entry (output, timestamp, TTL) and returns an envelope; so two concurrent
\* requests with the same fingerprint that both read absent make two engine
\* invocations and two writes of the entry.
MadeWrites(r) ==
    CASE req[r].pc \in {"execute", "awaiting", "set_output"} -> 0
      [] req[r].pc = "set_timestamp" -> 1
      [] req[r].pc = "set_expire" -> 2
      [] req[r].pc \in {"respond", "done"} -> 3
      [] OTHER -> 0

C11_DuplicateWork ==
    \A r \in Requests :
        hist.req[r].first_read = "absent" =>
            /\ hist.req[r].branch = "miss"
            /\ hist.req[r].invoked = (IF req[r].pc = "execute" THEN 0 ELSE 1)
            /\ hist.req[r].writes = MadeWrites(r)
            /\ req[r].pc \in Finished =>
                (hist.req[r].engine_result = "output" <=> req[r].pc = "done")
            /\ req[r].pc = "done" => IsEnvelope(r)

C11_Witness ==
    \E r, o \in Requests :
        /\ r # o
        /\ SameKey(r, o)
        /\ o \in hist.req[r].overlap
        /\ hist.req[r].first_read = "absent" /\ hist.req[o].first_read = "absent"
        /\ hist.req[r].invoked = 1 /\ hist.req[o].invoked = 1
        /\ hist.req[r].writes = 3 /\ hist.req[o].writes = 3
        /\ IsEnvelope(r) /\ IsEnvelope(o)

\* C12: atomic entry creation.  In every reachable state, an entry that has an
\* output field also has a timestamp field and a TTL: no reader can see a
\* partially created entry, and no entry exists without an expiry.
C12_AtomicCreation ==
    \A k \in Keys :
        cache[k].output # PyNone =>
            /\ cache[k].timestamp # PyNone
            /\ cache[k].ttl > 0

\* C13: the response reflects the cache.  On the hit and on the miss path, the
\* output of the envelope a request returns is the value of the entry's output
\* field at the request's final read, not the value the request holds locally.
C13_ResponseReflectsCache ==
    [][\A r \in Requests :
        (req[r].pc = "respond" /\ req'[r].pc # "respond") =>
            /\ req'[r].pc = "done"
            /\ result'[r].kind = "envelope"
            /\ result'[r].output = cache[req[r].cache_key].output]_vars

C13_Witness ==
    \E r, o \in Requests :
        /\ r # o
        /\ IsEnvelope(r)
        /\ hist.req[r].branch = "miss"
        /\ hist.req[r].stale_local
        /\ hist.req[r].output_from = o
        /\ result[r].output = cache[req[r].cache_key].output

\* C14: exhaustive hit/miss branching.  Whatever the first read returns
\* (absent, the empty string, a non-empty string), the request takes exactly
\* one of the hit branch and the miss branch; no envelope carries the sentinel
\* runtime 65535; a hit has runtime 0 and cached = true, a miss has
\* cached = false and a computed runtime.
C14_ExhaustiveBranching ==
    \A r \in Requests :
        /\ hist.req[r].first_read \in {"absent", "empty"} =>
                hist.req[r].branch = "miss"
        /\ hist.req[r].first_read = "value" => hist.req[r].branch = "hit"
        /\ hist.req[r].branch = "hit" => hist.req[r].invoked = 0
        /\ IsEnvelope(r) =>
            /\ result[r].runtime # RuntimeSentinel
            /\ hist.req[r].branch \in {"hit", "miss"}
            /\ hist.req[r].branch = "hit" =>
                    result[r].runtime = 0 /\ result[r].cached = TRUE
            /\ hist.req[r].branch = "miss" =>
                    result[r].runtime \in 0..MaxElapsed /\ result[r].cached = FALSE

C14_Witness ==
    \E r, o \in Requests :
        /\ IsEnvelope(r) /\ IsEnvelope(o)
        /\ hist.req[o].first_read = "absent"
        /\ hist.req[r].first_read = "empty"
        /\ result[r].cached = FALSE
        /\ result[r].runtime = MaxElapsed

\* C15: hit path frame.  A request on the hit path invokes neither the engine
\* nor fake_output and writes neither the output nor the timestamp field; the
\* only change it makes to the cache is setting the TTL of its own entry to
\* the cache timeout.
C15_HitPathFrame ==
    /\ [](\A r \in Requests :
            hist.req[r].branch = "hit" =>
                /\ hist.req[r].invoked = 0
                /\ hist.req[r].engine_result = "none"
                /\ hist.req[r].writes <= 1
                /\ \A k \in Keys : /\ hist.writer[k].output # r
                                   /\ hist.writer[k].timestamp # r)
    /\ [][\A r \in Requests :
            (hist'.req[r].branch = "hit" /\ req'[r] # req[r]) =>
                \A k \in Keys :
                    /\ cache'[k].output = cache[k].output
                    /\ cache'[k].timestamp = cache[k].timestamp
                    /\ cache'[k].ttl # cache[k].ttl =>
                        /\ k = req[r].cache_key
                        /\ cache'[k].ttl = CacheTimeout]_vars

C15_Witness ==
    \E r \in Requests :
        /\ IsEnvelope(r)
        /\ hist.req[r].branch = "hit"
        /\ hist.req[r].writes = 1
        /\ result[r].output # PyNone
        /\ cache[req[r].cache_key].ttl = CacheTimeout
        /\ hist.age[req[r].cache_key].n = 0
        /\ \E m \in hist.req[r].prior_miss : hist.req[m].writes = 3

\* C16: backend exception.  When the engine raises during a miss, the
\* exception leaves the request as its failure, the request has invoked the
\* engine exactly once (no retry), returns no envelope, and has written
\* nothing to the cache.
C16_BackendException ==
    \A r \in Requests :
        /\ hist.req[r].engine_result = "raised" =>
            /\ req[r].pc = "raised"
            /\ result[r] = BackendException
            /\ ~IsEnvelope(r)
            /\ hist.req[r].invoked = 1
            /\ hist.req[r].branch = "miss"
            /\ hist.req[r].writes = 0
            /\ \A k \in Keys : /\ hist.writer[k].output # r
                               /\ hist.writer[k].timestamp # r
        /\ result[r].kind = "BackendException" =>
                hist.req[r].engine_result = "raised"

C16_Witness ==
    \E r, o \in Requests :
        /\ r # o
        /\ SameKey(r, o)
        /\ req[r].pc = "raised"
        /\ hist.req[r].engine_result = "raised"
        /\ hist.req[r].invoked = 1
        /\ o \in hist.req[r].overlap
        /\ IsEnvelope(o)
        /\ hist.writer[req[r].cache_key].output = o

\* C17: every success envelope has an output.  In every interleaving of
\* requests and TTL expiry, a request that returns an envelope, hit or miss,
\* returns an output and a timestamp that are not absent.
C17_EnvelopeHasOutput ==
    \A r \in Requests :
        IsEnvelope(r) =>
            /\ result[r].output # PyNone
            /\ result[r].timestamp # PyNone

\* C18: output/timestamp pairing in the response.  The output and the
\* timestamp of a returned envelope come from the same miss: the timestamp is
\* the one the writer of the carried output wrote with it.
C18_ResponsePairing ==
    \A r \in Requests :
        (IsEnvelope(r) /\ result[r].output # PyNone /\ result[r].timestamp # PyNone) =>
            /\ hist.req[r].output_from # 0
            /\ result[r].timestamp = PyTime("query", hist.req[r].output_from)

\* C19: no mixed cache entry.  Once no request for a key is on the miss path
\* between its engine call and its last write, the entry's output field and
\* timestamp field were written by the same request.
Writing(k) ==
    {r \in Requests :
        /\ req[r].cache_key = k
        /\ req[r].pc \in {"execute", "awaiting", "set_output", "set_timestamp",
                          "set_expire"}}

C19_NoMixedEntry ==
    \A k \in Keys :
        (Writing(k) = {} /\ cache[k].output # PyNone /\ cache[k].timestamp # PyNone) =>
            hist.writer[k].output = hist.writer[k].timestamp

\* C20: plugin registration completeness.  After init_plugins, and after
\* register_plugin on an existing file, every class defined in the module that
\* derives from OutputPlugin or InputPlugin is registered with the matching
\* manager, whatever the number and order of the classes, and register_plugin
\* returns the names of exactly the defined classes that derive from neither.
DefinedAs(mod, module, base) ==
    {<<mod, i>> : i \in {j \in DOMAIN module :
                            module[j].defined /\ module[j].base = base}}

Loaded(base) ==
    DefinedAs("builtin", plugins.builtin, base)
    \cup (IF plugins.pc = "registered"
          THEN DefinedAs("external", plugins.external, base) ELSE {})

C20_RegistrationComplete ==
    plugins.pc \in {"initialized", "registered"} =>
        /\ plugins.managers.OutputPluginManager = Loaded("OutputPlugin")
        /\ plugins.managers.InputPluginManager = Loaded("InputPlugin")
        /\ plugins.pc = "registered" =>
            /\ {plugins.results[i] : i \in DOMAIN plugins.results}
                    = DefinedAs("external", plugins.external, "object")
            /\ Len(plugins.results)
                    = Cardinality(DefinedAs("external", plugins.external, "object"))

\* C21: unique-keyed collection.  After construction from any items, and after
\* any sequence of add calls (with or without unique_by) and + merges, no two
\* items of a MultiModel have the same value of the unique_by attribute, and
\* count is the number of items.
UniqueKeyed(instance) ==
    /\ \A i, j \in 1..Len(instance.root) :
            instance.root[i].id = instance.root[j].id => i = j
    /\ instance.count = Len(instance.root)

C21_UniqueKeyed ==
    models.pc = "instance" =>
        /\ UniqueKeyed(models.self)
        /\ UniqueKeyed(models.sum)

\* C22: request termination.  Given that the engine call (or fake_output)
\* returns or raises, every request that arrived ends, and ends in exactly one
\* of three ways that it then keeps: a success envelope, HyperglassError with
\* alert "danger", or the engine's exception; and a request in flight can
\* always take its next step, whatever the other requests and the
\* notification tasks are doing.
Ended(r) ==
    \/ req[r].pc = "done" /\ result[r].kind = "envelope"
                          /\ result[r].level = "success"
    \/ req[r].pc = "failed" /\ result[r] = HyperglassError
                            /\ result[r].alert = "danger"
    \/ req[r].pc = "raised" /\ result[r] = BackendException

C22_RequestTermination ==
    /\ [](\A r \in Requests :
            /\ req[r].pc \in Finished <=> Ended(r)
            /\ req[r].pc \notin Finished => result[r] = NoResult
            /\ InFlight(r) => ENABLED Progress(r))
    /\ [][\A r \in Requests :
            req[r].pc \in Finished =>
                /\ req'[r].pc = req[r].pc
                /\ result'[r] = result[r]]_vars
    /\ \A r \in Requests : (req[r].pc # "idle") ~> (req[r].pc \in Finished)

C22_Witness ==
    \E r, o \in Requests :
        /\ SameKey(r, o)
        /\ o \in hist.req[r].overlap
        /\ req[r].pc = "raised" /\ Ended(r)
        /\ req[o].pc = "failed" /\ Ended(o)
        /\ task[r].pc = "scheduled"
        /\ task[o].pc = "sent"

====
